---------------------------- MODULE Spec2Model ----------------------------
(***************************************************************************)
(* Anomaly scoring and threshold decision engine of Ensemble-EVT           *)
(* (src/predict.py, src/main.py).                                          *)
(*                                                                         *)
(* Floating point values are modelled as records: a finite value carries   *)
(* an integer number of ticks (One ticks = 1.0), NaN and +/-Inf are their  *)
(* own kinds and compare as IEEE-754 values do (every comparison with NaN  *)
(* is false).  Finite arithmetic is exact: the input sets are chosen so    *)
(* that every division the code performs on them is exact in ticks.        *)
(***************************************************************************)
EXTENDS Integers, Sequences, FiniteSets, TLC

VARIABLES
    \* compute_loss_safe
    data,            \* the batches of the dataset: what extraction yields for each
    step,            \* number of batches the loop has iterated
    losses,          \* the list `losses`
    skipped_count,   \* the counter `skipped_count`
    c_pc,            \* "loop" | "returned" | "aborted"
    c_ret,           \* the returned array (<<>> until the function returns)
    \* predict
    p_losses,        \* argument `losses`
    p_sentences,     \* argument `sentences`
    threshold,       \* argument `threshold`
    ood_label,       \* argument `ood_label`
    classifier,      \* sentence -> argmax class id of the classifier's output
    labels,          \* the list `labels`
    p_pc,            \* "loop" | "returned"
    \* fit_evt_models / fit_evt_models_robust
    variant,         \* "standard" (fit_evt_models) | "robust" (fit_evt_models_robust)
    fpr_pct,         \* argument `fpr`, in percent
    n_seen,          \* number of (loss, sentence, class) triples iterated
    n_dropped,       \* triples the grouping loop left without storing a score
    seen_classes,    \* <<class id, score is finite>> of the triples iterated
    last,            \* the triple iterated last (<<>> before the first)
    class_to_samples,\* class id -> list of ensemble scores (<<>>: key absent)
    key_order,       \* keys of class_to_samples in insertion order
    n_fitted,        \* number of keys the fitting loop has handled
    fit_out,         \* class id -> what genextreme.fit and ppf did, where called
    evt_models,      \* the dict `evt_models`
    thresholds,      \* the dict `thresholds`
    f_pc,            \* "group" | "fit" | "returned" | "raised"
    \* run (predict.py and main.py)
    program,         \* "predict" (predict.py) | "main" (main.py)
    r_data,          \* split -> the batches of that split
    r_done,          \* number of calls of the run made so far
    r_loss,          \* split -> the loss array computed for it (<<>>: not yet)
    r_norm,          \* split -> the normalized loss array (<<>>: not yet)
    stats,           \* the persisted normalization statistics (<<>>: none)
    stats_writes,    \* number of times this run has written the statistics
    norm_calls,      \* the normalize calls made: split, mode, statistics used
    r_pc,            \* "run" | "done" | "config_error"
    \* run of predict.py, from the loss collection to the metrics
    config,          \* the configuration: option -> <<>> (absent) or <<value>>
    d_data,          \* split -> the batches of that split, one per sentence
    d_loss,          \* split -> the loss array computed for it
    d_norm,          \* split -> the normalized loss array
    path,            \* "none" | "evt" | "fixed": the branch that set the threshold
    evt_args,        \* <<>> or <<the keyword arguments given to evt_vae_only>>
    run_threshold,   \* <<>> or <<the threshold handed to predict>>
    eval_losses,     \* the array `eval_losses` (`eval_loss` in the else branch)
    eval_sentences,  \* the list `eval_sentences`
    y_pred_multiclass,
    y_pred_binary,
    y_true_binary,
    d_pc             \* "start" | "normalized" | "chosen" | "done" | ...

collectVars == <<data, step, losses, skipped_count, c_pc, c_ret>>
predictVars ==
    <<p_losses, p_sentences, threshold, ood_label, classifier, labels, p_pc>>

fitVars ==
    <<variant, fpr_pct, n_seen, n_dropped, seen_classes, last,
      class_to_samples, key_order, n_fitted, fit_out, evt_models, thresholds, f_pc>>

runVars ==
    <<program, r_data, r_done, r_loss, r_norm, stats, stats_writes, norm_calls,
      r_pc>>

decideVars ==
    <<config, d_data, d_loss, d_norm, path, evt_args, run_threshold,
      eval_losses, eval_sentences, y_pred_multiclass, y_pred_binary,
      y_true_binary, d_pc>>

vars == <<collectVars, predictVars, fitVars, runVars, decideVars>>

----------------------------------------------------------------------------
(* Floats *)

\* 1.0 in ticks
One == 800

Fin(x) == [k |-> "fin", v |-> x]
NaN == [k |-> "nan", v |-> 0]
PInf == [k |-> "inf", v |-> 1]
NInf == [k |-> "inf", v |-> -1]

isnan(f) == f.k = "nan"
isinf(f) == f.k = "inf"
isfinite(f) == f.k = "fin"

\* a <= b on floats
FLe(a, b) ==
    CASE isnan(a) \/ isnan(b) -> FALSE
      [] isinf(a) /\ isinf(b) -> a.v <= b.v
      [] isinf(a) -> a.v < 0
      [] isinf(b) -> b.v > 0
      [] OTHER -> a.v <= b.v

\* a < b on floats
FLt(a, b) ==
    CASE isnan(a) \/ isnan(b) -> FALSE
      [] isinf(a) /\ isinf(b) -> a.v < b.v
      [] isinf(a) -> a.v < 0
      [] isinf(b) -> b.v > 0
      [] OTHER -> a.v < b.v

\* a > b on floats
FGt(a, b) == FLt(b, a)

----------------------------------------------------------------------------
(* compute_loss_safe *)

\* longest dataset enumerated
MaxData == 3

\* the high loss returned for an all-invalid population: 10.0
SentinelLoss == 10

\* what the model's loss accumulator can hold after a forward pass
LossOutcomes == {Fin(0), Fin(One), Fin(SentinelLoss * One), NaN, PInf, NInf}

\* a batch: either extraction raises, or it yields a scalar loss
Batches ==
    {[raises |-> TRUE, value |-> NaN]}
        \cup {[raises |-> FALSE, value |-> f] : f \in LossOutcomes}

Datasets == UNION {[1..n -> Batches] : n \in 0..MaxData}

\* the loop body with the NaN test lost: only Inf is skipped
loop_body_NoNanCheck(ls, sk, b) ==
    IF b.raises
    THEN [losses |-> ls, skipped_count |-> sk + 1, propagates |-> FALSE]
    ELSE IF isinf(b.value)
         THEN [losses |-> ls, skipped_count |-> sk + 1, propagates |-> FALSE]
         ELSE [losses |-> Append(ls, b.value), skipped_count |-> sk,
               propagates |-> FALSE]

\* one iteration of the for loop: try / NaN-Inf test / append / except
loop_body(ls, sk, b) ==
    IF b.raises
    THEN [losses |-> ls, skipped_count |-> sk + 1, propagates |-> FALSE]
    ELSE IF isnan(b.value) \/ isinf(b.value)
         THEN [losses |-> ls, skipped_count |-> sk + 1, propagates |-> FALSE]
         ELSE [losses |-> Append(ls, b.value), skipped_count |-> sk,
               propagates |-> FALSE]

\* the return with the empty test lost: an empty array can be returned
loss_array_NoSentinel(ls) == ls

\* the value returned once the loop has ended
loss_array(ls) == IF Len(ls) = 0 THEN <<Fin(SentinelLoss * One)>> ELSE ls

\* compute_loss_safe as a function of the whole dataset
RECURSIVE collect(_, _, _)
collect(d, ls, sk) ==
    IF d = <<>>
    THEN [losses |-> ls, skipped_count |-> sk]
    ELSE LET r == loop_body(ls, sk, Head(d))
         IN  collect(Tail(d), r.losses, r.skipped_count)

compute_loss_safe(d) == loss_array(collect(d, <<>>, 0).losses)

CollectIdle ==
    /\ data = <<>>
    /\ step = 0
    /\ losses = <<>>
    /\ skipped_count = 0
    /\ c_pc = "idle"
    /\ c_ret = <<>>

CollectInit ==
    /\ data \in Datasets
    /\ step = 0
    /\ losses = <<>>
    /\ skipped_count = 0
    /\ c_pc = "loop"
    /\ c_ret = <<>>

\* for step, (x, y, z) in enumerate(data): ...
LossStep ==
    /\ c_pc = "loop"
    /\ step < Len(data)
    /\ LET r == loop_body(losses, skipped_count, data[step + 1])
       IN  /\ losses' = r.losses
           /\ skipped_count' = r.skipped_count
           /\ c_pc' = IF r.propagates THEN "aborted" ELSE "loop"
    /\ step' = step + 1
    /\ UNCHANGED <<data, c_ret, predictVars, fitVars, runVars, decideVars>>

\* the loop is over: return the sentinel array or the collected losses
LossReturn ==
    /\ c_pc = "loop"
    /\ step = Len(data)
    /\ c_ret' = loss_array(losses)
    /\ c_pc' = "returned"
    /\ UNCHANGED <<data, step, losses, skipped_count, predictVars, fitVars,
                   runVars, decideVars>>

CollectNext == LossStep \/ LossReturn

----------------------------------------------------------------------------
(* Claims about compute_loss_safe *)

ValidBatch(b) == ~b.raises /\ isfinite(b.value)

RECURSIVE ValidLosses(_)
ValidLosses(d) ==
    IF d = <<>> THEN <<>>
    ELSE IF ValidBatch(Head(d))
         THEN <<Head(d).value>> \o ValidLosses(Tail(d))
         ELSE ValidLosses(Tail(d))

Seen == SubSeq(data, 1, step)

\* C2: an example whose extraction raises or whose loss is NaN/Inf is skipped
\* and counted, the loop goes on to the end of the data, and with at least one
\* valid example the returned array holds exactly the valid losses:
\* valid-count + skipped-count = number of examples iterated.
C2_SkipCountContinue ==
    /\ c_pc # "aborted"
    /\ losses = ValidLosses(Seen)
    /\ skipped_count = step - Len(ValidLosses(Seen))
    /\ c_pc = "returned" =>
        /\ step = Len(data)
        /\ Len(ValidLosses(data)) >= 1 =>
            /\ Len(c_ret) = Len(ValidLosses(data))
            /\ Len(c_ret) + skipped_count = Len(data)

\* a returned run in which a raising batch and a NaN batch were skipped and a
\* later valid batch was still collected
C2_Witness ==
    /\ c_pc = "returned"
    /\ Len(data) = 3
    /\ data[1].raises
    /\ ~data[2].raises /\ isnan(data[2].value)
    /\ ValidBatch(data[3])
    /\ skipped_count = 2
    /\ Len(c_ret) = 1

\* C3 as stated: an all-invalid input returns exactly [10.0], the result is
\* never empty, and [10.0] is returned only for an input without a valid example.
C3_SentinelOnlyIfAllInvalid ==
    c_pc = "returned" =>
        /\ ValidLosses(data) = <<>> => c_ret = <<Fin(SentinelLoss * One)>>
        /\ c_ret # <<>>
        /\ c_ret = <<Fin(SentinelLoss * One)>> => ValidLosses(data) = <<>>

\* C3 amended: an all-invalid (or empty) input returns exactly [10.0], the
\* result is never empty, and [10.0] is returned only for such an input or for
\* an input whose single valid loss is itself 10.0.
C3_SentinelIffAllInvalidOrTen ==
    c_pc = "returned" =>
        /\ ValidLosses(data) = <<>> => c_ret = <<Fin(SentinelLoss * One)>>
        /\ c_ret # <<>>
        /\ c_ret = <<Fin(SentinelLoss * One)>> =>
            \/ ValidLosses(data) = <<>>
            \/ ValidLosses(data) = <<Fin(SentinelLoss * One)>>

\* a returned run over two examples, both invalid, that yielded the sentinel
C3_Witness ==
    /\ c_pc = "returned"
    /\ Len(data) = 2
    /\ ValidLosses(data) = <<>>
    /\ skipped_count = 2
    /\ c_ret = <<Fin(SentinelLoss * One)>>

----------------------------------------------------------------------------
(* predict *)

\* longest losses / sentences argument enumerated
MaxPairs == 2

\* the known intent classes: class ids 0 .. NumClasses - 1
Classes == {0, 1}

\* len(in_lbl_2_indx): one past the largest known class id
NumClasses == Cardinality(Classes)

Sentences == {"s1", "s2"}

\* losses handed to predict
PredictLosses == {Fin(0), Fin(One), NaN, PInf}

\* thresholds handed to predict
PredictThresholds == {Fin(0), Fin(One), NaN}

SeqsUpTo(S, n) == UNION {[1..m -> S] : m \in 0..n}

Min(a, b) == IF a <= b THEN a ELSE b

\* the decision with < in place of <=
decide_StrictLess(loss, sen, thr, ood, clf) ==
    IF FLt(loss, thr) THEN clf[sen] ELSE ood

\* the decision with the else branch lost: every pair gets the classifier's label
decide_NoOod(loss, sen, thr, ood, clf) == clf[sen]

\* the label of one (loss, sentence) pair
decide(loss, sen, thr, ood, clf) ==
    IF FLe(loss, thr) THEN clf[sen] ELSE ood

\* predict as a function of its arguments: the list of labels it returns
predict(ls, sens, thr, ood, clf) ==
    [i \in 1..Min(Len(ls), Len(sens)) |-> decide(ls[i], sens[i], thr, ood, clf)]

\* number of pairs zip(losses, sentences) yields
NumPairs == Min(Len(p_losses), Len(p_sentences))

PredictIdle ==
    /\ p_losses = <<>>
    /\ p_sentences = <<>>
    /\ threshold = NaN
    /\ ood_label = 0
    /\ classifier = <<>>
    /\ labels = <<>>
    /\ p_pc = "idle"

PredictInit ==
    /\ p_losses \in SeqsUpTo(PredictLosses, MaxPairs)
    /\ p_sentences \in SeqsUpTo(Sentences, MaxPairs)
    /\ threshold \in PredictThresholds
    /\ ood_label \in {NumClasses - 1, NumClasses}
    /\ classifier \in [Sentences -> Classes]
    /\ labels = <<>>
    /\ p_pc = "loop"

\* for loss, sen in zip(losses, sentences): labels.append(...)
PredictStep ==
    /\ p_pc = "loop"
    /\ Len(labels) < NumPairs
    /\ LET i == Len(labels) + 1
       IN  labels' = Append(labels,
                decide(p_losses[i], p_sentences[i], threshold, ood_label,
                       classifier))
    /\ UNCHANGED <<p_losses, p_sentences, threshold, ood_label, classifier,
                   p_pc, collectVars, fitVars, runVars, decideVars>>

\* return labels
PredictReturn ==
    /\ p_pc = "loop"
    /\ Len(labels) = NumPairs
    /\ p_pc' = "returned"
    /\ UNCHANGED <<p_losses, p_sentences, threshold, ood_label, classifier,
                   labels, collectVars, fitVars, runVars, decideVars>>

PredictNext == PredictStep \/ PredictReturn

----------------------------------------------------------------------------
(* Claims about predict *)

\* C1 as stated: every pair, in input order, gets the classifier's argmax when
\* loss <= threshold and ood_label otherwise, and with ood_label one past the
\* largest class id, ood_label is emitted only for pairs with loss > threshold.
C1_OodOnlyAboveThreshold ==
    /\ p_pc = "returned" => Len(labels) = NumPairs
    /\ \A i \in 1..Len(labels) :
        /\ FLe(p_losses[i], threshold) => labels[i] = classifier[p_sentences[i]]
        /\ ~FLe(p_losses[i], threshold) => labels[i] = ood_label
        /\ (ood_label = NumClasses /\ labels[i] = ood_label) =>
                FGt(p_losses[i], threshold)

\* C1 amended: as stated, except that ood_label is emitted only for pairs for
\* which loss <= threshold is false: loss > threshold, or the loss or the
\* threshold is NaN.
C1_OodOnlyWhenNotLe ==
    /\ p_pc = "returned" => Len(labels) = NumPairs
    /\ \A i \in 1..Len(labels) :
        /\ FLe(p_losses[i], threshold) => labels[i] = classifier[p_sentences[i]]
        /\ ~FLe(p_losses[i], threshold) => labels[i] = ood_label
        /\ (ood_label = NumClasses /\ labels[i] = ood_label) =>
                \/ FGt(p_losses[i], threshold)
                \/ isnan(p_losses[i])
                \/ isnan(threshold)

\* a returned call that labelled one pair by the classifier (loss equal to the
\* threshold) and the next pair, with a NaN loss, as out of domain
C1_Witness ==
    /\ p_pc = "returned"
    /\ ood_label = NumClasses
    /\ Len(labels) = 2
    /\ isfinite(threshold)
    /\ p_losses[1] = threshold
    /\ labels[1] = classifier[p_sentences[1]]
    /\ isnan(p_losses[2])
    /\ labels[2] = ood_label

\* C14: for a fixed threshold, sentences and classifier, raising the loss of
\* one example from a value <= threshold to a value > threshold turns that
\* example's label from the classifier's argmax into ood_label and leaves the
\* label of every other example as it was.
C14_RaisingLossFlipsToOod ==
    p_pc = "returned" =>
        /\ labels = predict(p_losses, p_sentences, threshold, ood_label,
                            classifier)
        /\ \A i \in 1..NumPairs : \A hi \in PredictLosses :
            (FLe(p_losses[i], threshold) /\ FGt(hi, threshold)) =>
                LET after == predict([p_losses EXCEPT ![i] = hi], p_sentences,
                                     threshold, ood_label, classifier)
                IN  /\ labels[i] = classifier[p_sentences[i]]
                    /\ after[i] = ood_label
                    /\ Len(after) = Len(labels)
                    /\ \A j \in 1..Len(labels) : j # i => after[j] = labels[j]

\* a returned call over two pairs whose first loss is at the threshold and
\* can be raised above it, with ood_label distinct from every class id and
\* the second pair already labelled out of domain
C14_Witness ==
    /\ p_pc = "returned"
    /\ ood_label = NumClasses
    /\ Len(labels) = 2
    /\ FLe(p_losses[1], threshold)
    /\ \E hi \in PredictLosses : FGt(hi, threshold) /\ isfinite(hi)
    /\ labels[1] = classifier[p_sentences[1]]
    /\ labels[2] = ood_label
    /\ p_sentences[1] # p_sentences[2]

----------------------------------------------------------------------------
(* fit_evt_models and fit_evt_models_robust *)

\* most validation triples enumerated for fit_evt_models_robust
MaxExamples == 11

\* most validation triples enumerated for fit_evt_models
MaxStdExamples == 2

\* if len(scores) < 10
MinSamples == 10

\* if len(scores_clean) < 5
MinCleanSamples == 5

\* np.percentile(scores, 95)
SmallClassPct == 95

\* abs(shape) > 2
ShapeLimit == 2

\* scale > 10
ScaleLimit == 10

\* values of the argument fpr, in percent (the default is 5)
FprPcts == {5, 10}

\* (loss, max_prob) of a validation example: the normalized reconstruction
\* loss and the classifier's largest softmax probability
FitInputs ==
    { [loss |-> Fin(-One), max_prob |-> Fin(One)],
      [loss |-> Fin(0), max_prob |-> Fin(One)],
      [loss |-> Fin(One \div 2), max_prob |-> Fin(One \div 2)],
      [loss |-> NaN, max_prob |-> Fin(One)],
      [loss |-> PInf, max_prob |-> Fin(One)],
      [loss |-> Fin(0), max_prob |-> NaN] }

\* 0.5 * (1 - max_prob) + 0.5 * loss
ood_score(max_prob, loss) ==
    CASE isnan(max_prob) \/ isnan(loss) -> NaN
      [] isinf(loss) -> loss
      [] OTHER -> Fin((One - max_prob.v + loss.v) \div 2)

\* the body of the grouping loop of fit_evt_models: every score is stored
group_std(loss, max_prob) ==
    [store |-> TRUE, score |-> ood_score(max_prob, loss)]

\* the grouping loop body with a truthiness test on the loss: a loss of 0.0
\* is passed over as well
group_robust_SkipsZeroLoss(loss, max_prob) ==
    IF isnan(loss) \/ isinf(loss) \/ loss = Fin(0)
    THEN [store |-> FALSE, score |-> NaN]
    ELSE LET sc == ood_score(max_prob, loss)
         IN  IF isnan(sc) \/ isinf(sc)
             THEN [store |-> FALSE, score |-> sc]
             ELSE [store |-> TRUE, score |-> sc]

\* the body of the grouping loop of fit_evt_models_robust: a NaN/Inf loss and
\* a NaN/Inf score are passed over
group_robust(loss, max_prob) ==
    IF isnan(loss) \/ isinf(loss)
    THEN [store |-> FALSE, score |-> NaN]
    ELSE LET sc == ood_score(max_prob, loss)
         IN  IF isnan(sc) \/ isinf(sc)
             THEN [store |-> FALSE, score |-> sc]
             ELSE [store |-> TRUE, score |-> sc]

\* abs(x)
FAbs(f) ==
    CASE isnan(f) -> NaN
      [] isinf(f) -> PInf
      [] OTHER -> Fin(IF f.v < 0 THEN -f.v ELSE f.v)

\* the finite values of a list of scores, ascending
Sorted(scores) ==
    SortSeq([i \in 1..Len(scores) |-> scores[i].v], LAMBDA a, b : a < b)

\* np.percentile(scores, q): linear interpolation between the two order
\* statistics around the virtual index (n - 1) * q / 100
Percentile(scores, q) ==
    LET s == Sorted(scores)
        h == (Len(s) - 1) * q
        lo == (h \div 100) + 1
        hi == IF h % 100 = 0 THEN lo ELSE lo + 1
    IN  Fin(s[lo] + (((h % 100) * (s[hi] - s[lo])) \div 100))

\* np.min / np.max of a non-empty list of finite scores
SeqMin(scores) == Fin(Sorted(scores)[1])
SeqMax(scores) == Fin(Sorted(scores)[Len(scores)])

\* the trimming without the 1.5 * IQR margin: only [Q1, Q3] is kept
scores_clean_NoMargin(scores) ==
    LET q1 == Percentile(scores, 25).v
        q3 == Percentile(scores, 75).v
    IN  SelectSeq(scores, LAMBDA x : x.v >= q1 /\ x.v <= q3)

\* scores_array[(scores_array >= lower_bound) & (scores_array <= upper_bound)]
scores_clean(scores) ==
    LET q1 == Percentile(scores, 25).v
        q3 == Percentile(scores, 75).v
        iqr == q3 - q1
        lower_bound == q1 - ((3 * iqr) \div 2)
        upper_bound == q3 + ((3 * iqr) \div 2)
    IN  SelectSeq(scores, LAMBDA x : x.v >= lower_bound /\ x.v <= upper_bound)

\* the parameter test without its upper limit on scale
unreasonable_NoScaleCap(params) ==
    \/ FGt(FAbs(params.shape), Fin(ShapeLimit * One))
    \/ FLe(params.scale, Fin(0))

\* abs(shape) > 2 or scale <= 0 or scale > 10
unreasonable(params) ==
    \/ FGt(FAbs(params.shape), Fin(ShapeLimit * One))
    \/ FLe(params.scale, Fin(0))
    \/ FGt(params.scale, Fin(ScaleLimit * One))

\* threshold < np.min(scores_clean) or threshold > np.max(scores_array) * 2
out_of_range(t, clean, scores) ==
    \/ FLt(t, SeqMin(clean))
    \/ FGt(t, Fin(2 * SeqMax(scores).v))

\* (shape, loc, scale) as stats.genextreme.fit may return them
FitParams ==
    { [shape |-> Fin(ShapeLimit * One), loc |-> Fin(0),
       scale |-> Fin(ScaleLimit * One)],
      [shape |-> Fin(-(ShapeLimit + 1) * One), loc |-> Fin(0),
       scale |-> Fin(ScaleLimit * One)],
      [shape |-> Fin(ShapeLimit * One), loc |-> Fin(0), scale |-> Fin(0)],
      [shape |-> Fin(ShapeLimit * One), loc |-> Fin(0),
       scale |-> Fin((ScaleLimit + 1) * One)],
      [shape |-> NaN, loc |-> Fin(0), scale |-> NaN] }

NoParams == [shape |-> NaN, loc |-> NaN, scale |-> NaN]

\* -stats.genextreme.ppf(1 - fpr, shape, loc, scale) as it may come out
PpfValues == {Fin(-2 * One), Fin(0), Fin(One \div 2), Fin(4 * One), NaN}

\* what the two library calls do for one class: the fit raises or returns
\* parameters, and then the quantile raises or returns a value
FitOutcomes ==
    {[fit_raises |-> TRUE, params |-> NoParams, ppf_raises |-> FALSE,
      ppf |-> NaN]}
    \cup {[fit_raises |-> FALSE, params |-> p, ppf_raises |-> TRUE,
           ppf |-> NaN] : p \in FitParams}
    \cup {[fit_raises |-> FALSE, params |-> p, ppf_raises |-> FALSE,
           ppf |-> t] : p \in FitParams, t \in PpfValues}

\* the library acts only for a class whose scores take the loop body of
\* fit_evt_models_robust into its try block
LibraryOutcomes(scores) ==
    IF Len(scores) >= MinSamples
    THEN IF Len(scores_clean(scores)) >= MinCleanSamples
         THEN FitOutcomes
         ELSE {[fit_raises |-> TRUE, params |-> NoParams,
                ppf_raises |-> FALSE, ppf |-> NaN]}
    ELSE {[fit_raises |-> TRUE, params |-> NoParams, ppf_raises |-> FALSE,
           ppf |-> NaN]}

\* what the fit did, as far as the loop body got to see it
Called(out) ==
    <<[raises |-> out.fit_raises,
       params |-> IF out.fit_raises THEN NoParams ELSE out.params,
       ppf |-> <<>>]>>

\* what the fit and, after it, the quantile did
CalledBoth(out) ==
    <<[raises |-> FALSE, params |-> out.params,
       ppf |-> <<[raises |-> out.ppf_raises, value |-> out.ppf]>>]>>

\* the body of the fitting loop of fit_evt_models for one class: no try, no
\* test of the parameters
std_fit_class(scores, out) ==
    IF out.fit_raises
    THEN [raised |-> TRUE, model |-> <<>>, threshold |-> <<>>,
          fit |-> Called(out)]
    ELSE IF out.ppf_raises
         THEN [raised |-> TRUE, model |-> <<out.params>>, threshold |-> <<>>,
               fit |-> CalledBoth(out)]
         ELSE [raised |-> FALSE, model |-> <<out.params>>,
               threshold |-> <<out.ppf>>, fit |-> CalledBoth(out)]

\* the threshold of a class too small to fit, read off the fpr percentile
small_class_threshold_UsesFpr(scores, q) == Percentile(scores, q)

\* np.percentile(scores, 95): the threshold of a class too small to fit
small_class_threshold(scores, q) == Percentile(scores, SmallClassPct)

\* np.percentile(scores_clean, 100 * (1 - fpr)): the threshold used in place
\* of a GEV threshold
fallback_threshold(clean, q) == Percentile(clean, q)

\* the body of the fitting loop of fit_evt_models_robust for one class
robust_fit_class(scores, q, out) ==
    IF Len(scores) < MinSamples
    THEN [raised |-> FALSE, model |-> <<>>,
          threshold |-> <<small_class_threshold(scores, q)>>, fit |-> <<>>]
    ELSE LET clean == scores_clean(scores)
         IN  IF Len(clean) < MinCleanSamples
             THEN [raised |-> FALSE, model |-> <<>>,
                   threshold |-> <<small_class_threshold(scores, q)>>,
                   fit |-> <<>>]
             ELSE IF out.fit_raises
             THEN [raised |-> FALSE, model |-> <<>>,
                   threshold |-> <<fallback_threshold(clean, q)>>,
                   fit |-> Called(out)]
             ELSE IF unreasonable(out.params)
             THEN [raised |-> FALSE, model |-> <<>>,
                   threshold |-> <<fallback_threshold(clean, q)>>,
                   fit |-> Called(out)]
             ELSE IF out.ppf_raises
             THEN [raised |-> FALSE, model |-> <<out.params>>,
                   threshold |-> <<fallback_threshold(clean, q)>>,
                   fit |-> CalledBoth(out)]
             ELSE [raised |-> FALSE, model |-> <<out.params>>,
                   threshold |->
                       IF out_of_range(out.ppf, clean, scores)
                       THEN <<fallback_threshold(clean, q)>>
                       ELSE <<out.ppf>>,
                   fit |-> CalledBoth(out)]

\* a position in the order validation sets are enumerated in
Rank(f) ==
    CASE isnan(f) -> 4 * One
      [] isinf(f) -> 3 * One
      [] OTHER -> f.v

\* The fitters read a class's scores through len, percentile, min, max, a
\* filter and the library fit only, and none of these depends on the order of
\* the scores; validation sets are therefore enumerated up to reordering:
\* triples that store no score first, then by class, then by score.
InOrder(cls, g) ==
    IF ~g.store
    THEN \A c \in Classes : class_to_samples[c] = <<>>
    ELSE /\ \A c \in Classes : c > cls => class_to_samples[c] = <<>>
         /\ IF class_to_samples[cls] = <<>> THEN TRUE
            ELSE Rank(class_to_samples[cls][Len(class_to_samples[cls])])
                     <= Rank(g.score)

Keys == {key_order[i] : i \in 1..Len(key_order)}

FitIdle ==
    /\ variant = "none"
    /\ fpr_pct = 0
    /\ n_seen = 0
    /\ n_dropped = 0
    /\ seen_classes = {}
    /\ last = <<>>
    /\ class_to_samples = [c \in Classes |-> <<>>]
    /\ key_order = <<>>
    /\ n_fitted = 0
    /\ fit_out = <<>>
    /\ evt_models = <<>>
    /\ thresholds = <<>>
    /\ f_pc = "idle"

FitInit ==
    /\ variant \in {"standard", "robust"}
    /\ fpr_pct \in FprPcts
    /\ n_seen = 0
    /\ n_dropped = 0
    /\ seen_classes = {}
    /\ last = <<>>
    /\ class_to_samples = [c \in Classes |-> <<>>]
    /\ key_order = <<>>
    /\ n_fitted = 0
    /\ fit_out = <<>>
    /\ evt_models = <<>>
    /\ thresholds = <<>>
    /\ f_pc = "group"

\* one iteration of the grouping loop, with the state it leaves
Group(in, cls, g) ==
    /\ InOrder(cls, g)
    /\ n_seen' = n_seen + 1
    /\ seen_classes' =
        seen_classes \cup {<<cls, isfinite(ood_score(in.max_prob, in.loss))>>}
    /\ last' = <<[loss |-> in.loss, max_prob |-> in.max_prob, cls |-> cls]>>
    /\ IF g.store
       THEN /\ class_to_samples' =
                [class_to_samples EXCEPT ![cls] = Append(@, g.score)]
            /\ key_order' = IF cls \in Keys THEN key_order
                            ELSE Append(key_order, cls)
            /\ UNCHANGED n_dropped
       ELSE /\ n_dropped' = n_dropped + 1
            /\ UNCHANGED <<class_to_samples, key_order>>
    /\ UNCHANGED <<variant, fpr_pct, n_fitted, fit_out, evt_models, thresholds,
                   f_pc, collectVars, predictVars, runVars, decideVars>>

\* fit_evt_models: for i, (loss, sen, cls) in enumerate(zip(...)): ...
GroupStd ==
    /\ f_pc = "group"
    /\ variant = "standard"
    /\ n_seen < MaxStdExamples
    /\ \E in \in FitInputs, cls \in Classes :
        Group(in, cls, group_std(in.loss, in.max_prob))

\* fit_evt_models_robust: for i, (loss, sen, cls) in enumerate(zip(...)): ...
GroupRobust ==
    /\ f_pc = "group"
    /\ variant = "robust"
    /\ n_seen < MaxExamples
    /\ \E in \in FitInputs, cls \in Classes :
        Group(in, cls, group_robust(in.loss, in.max_prob))

\* the grouping loop is over: evt_models = {}, thresholds = {}
BeginFit ==
    /\ f_pc = "group"
    /\ f_pc' = "fit"
    /\ UNCHANGED <<variant, fpr_pct, n_seen, n_dropped, seen_classes, last,
                   class_to_samples,
                   key_order, n_fitted, fit_out, evt_models, thresholds,
                   collectVars, predictVars, runVars, decideVars>>

\* one iteration of a fitting loop, with the state it leaves
FitClass(cls, r) ==
    /\ n_fitted' = n_fitted + 1
    /\ fit_out' = IF r.fit = <<>> THEN fit_out ELSE fit_out @@ (cls :> r.fit[1])
    /\ evt_models' =
        IF r.model = <<>> THEN evt_models ELSE evt_models @@ (cls :> r.model[1])
    /\ thresholds' =
        IF r.threshold = <<>> THEN thresholds
        ELSE thresholds @@ (cls :> r.threshold[1])
    /\ f_pc' = IF r.raised THEN "raised" ELSE "fit"
    /\ UNCHANGED <<variant, fpr_pct, n_seen, n_dropped, seen_classes, last,
                   class_to_samples,
                   key_order, collectVars, predictVars, runVars, decideVars>>

\* fit_evt_models: for cls, scores in class_to_samples.items(): ...
FitStd ==
    /\ f_pc = "fit"
    /\ variant = "standard"
    /\ n_fitted < Len(key_order)
    /\ LET cls == key_order[n_fitted + 1]
       IN  \E out \in FitOutcomes :
            FitClass(cls, std_fit_class(class_to_samples[cls], out))

\* fit_evt_models_robust: for cls, scores in class_to_samples.items(): ...
FitRobust ==
    /\ f_pc = "fit"
    /\ variant = "robust"
    /\ n_fitted < Len(key_order)
    /\ LET cls == key_order[n_fitted + 1]
       IN  \E out \in LibraryOutcomes(class_to_samples[cls]) :
            FitClass(cls, robust_fit_class(class_to_samples[cls],
                                           100 - fpr_pct, out))

\* return thresholds, evt_models
FitReturn ==
    /\ f_pc = "fit"
    /\ n_fitted = Len(key_order)
    /\ f_pc' = "returned"
    /\ UNCHANGED <<variant, fpr_pct, n_seen, n_dropped, seen_classes, last,
                   class_to_samples,
                   key_order, n_fitted, fit_out, evt_models, thresholds,
                   collectVars, predictVars, runVars, decideVars>>

FitNext == GroupStd \/ GroupRobust \/ BeginFit \/ FitStd \/ FitRobust \/ FitReturn

----------------------------------------------------------------------------
(* Claims about the fitters *)

\* |shape| <= 2 and scale > 0 and scale <= 10
WithinSanityBounds(params) ==
    /\ FLe(FAbs(params.shape), Fin(ShapeLimit * One))
    /\ FGt(params.scale, Fin(0))
    /\ FLe(params.scale, Fin(ScaleLimit * One))

\* |shape| > 2, scale <= 0 or scale > 10
ViolatesSanityBounds(params) ==
    \/ FGt(FAbs(params.shape), Fin(ShapeLimit * One))
    \/ FLe(params.scale, Fin(0))
    \/ FGt(params.scale, Fin(ScaleLimit * One))

\* the scores of a class after the trimming the robust fitter applied to them
Trimmed(scores) ==
    IF Len(scores) < MinSamples THEN scores ELSE scores_clean(scores)

\* C4: in both fitters every entry of evt_models is within the sanity bounds,
\* and a fit whose parameters are not (NaN parameters included) never leaves
\* an entry.
C4_ModelsWithinBounds ==
    /\ \A c \in DOMAIN evt_models : WithinSanityBounds(evt_models[c])
    /\ \A c \in DOMAIN fit_out :
        (~fit_out[c].raises /\ ~WithinSanityBounds(fit_out[c].params))
            => c \notin DOMAIN evt_models

\* C5: in the robust fitter a class with fewer than 10 stored scores never has
\* an evt_models entry, the library fit is never called for it, and its
\* threshold is the 95th percentile of its raw scores whatever fpr is.
C5_SmallClassPercentile ==
    variant = "robust" =>
        \A c \in Keys :
            Len(class_to_samples[c]) < MinSamples =>
                /\ c \notin DOMAIN evt_models
                /\ c \notin DOMAIN fit_out
                /\ c \in DOMAIN thresholds =>
                    thresholds[c] =
                        Percentile(class_to_samples[c], SmallClassPct)
                /\ f_pc = "returned" => c \in DOMAIN thresholds

\* a returned robust run, fpr = 0.10, in which a class of two unequal scores
\* has no model and a threshold that is not the 90th percentile of its scores
C5_Witness ==
    /\ variant = "robust"
    /\ f_pc = "returned"
    /\ fpr_pct = 10
    /\ \E c \in Keys :
        /\ Len(class_to_samples[c]) = 2
        /\ class_to_samples[c][1] # class_to_samples[c][2]
        /\ c \in DOMAIN thresholds
        /\ thresholds[c] # Percentile(class_to_samples[c], 100 - fpr_pct)
        /\ c \notin DOMAIN evt_models

\* C6: in the robust fitter the final threshold of a class is never below its
\* minimum trimmed score and never above twice its maximum raw score.
C6_ThresholdInScoreRange ==
    variant = "robust" =>
        \A c \in DOMAIN thresholds :
            /\ ~FLt(thresholds[c], SeqMin(Trimmed(class_to_samples[c])))
            /\ ~FGt(thresholds[c], Fin(2 * SeqMax(class_to_samples[c]).v))

\* C7: in the robust fitter, for a class with at least 10 scores of which at
\* least 5 survive the trimming, a fit that raises or returns parameters
\* outside the sanity bounds leaves no evt_models entry and the threshold is
\* the 100 * (1 - fpr) percentile of the trimmed scores.
C7_FailedFitFallsBack ==
    variant = "robust" =>
        \A c \in DOMAIN thresholds :
            (/\ Len(class_to_samples[c]) >= MinSamples
             /\ Len(scores_clean(class_to_samples[c])) >= MinCleanSamples)
            =>
                /\ c \in DOMAIN fit_out
                /\ (fit_out[c].raises \/ ViolatesSanityBounds(fit_out[c].params))
                    =>
                    /\ c \notin DOMAIN evt_models
                    /\ thresholds[c] =
                        Percentile(scores_clean(class_to_samples[c]),
                                   100 - fpr_pct)

\* a returned robust run in which a class of 10 or more scores, some of them
\* trimmed away, got a fit with scale > 10: it has a threshold and no model
C7_Witness ==
    /\ variant = "robust"
    /\ f_pc = "returned"
    /\ \E c \in DOMAIN fit_out :
        /\ ~fit_out[c].raises
        /\ FGt(fit_out[c].params.scale, Fin(ScaleLimit * One))
        /\ Len(scores_clean(class_to_samples[c])) < Len(class_to_samples[c])
        /\ c \notin DOMAIN evt_models
        /\ c \in DOMAIN thresholds

\* C8: neither fitter lets a failure of the library fit or of the quantile
\* out: the function returns, with a threshold for every class.
C8_FitterAlwaysReturns ==
    /\ f_pc # "raised"
    /\ f_pc = "returned" => \A c \in Keys : c \in DOMAIN thresholds

\* C9: the score stored for an example is 0.5 * (1 - max_prob) + 0.5 * loss,
\* and an example with a NaN input makes the builder fail with
\* InvalidScoreError: its score is neither stored nor passed over.
C9_NanInputIsAnError ==
    last # <<>> =>
        LET t == last[1]
        IN  /\ (isfinite(t.loss) /\ isfinite(t.max_prob)) =>
                /\ class_to_samples[t.cls] # <<>>
                /\ class_to_samples[t.cls][Len(class_to_samples[t.cls])]
                       = Fin((One - t.max_prob.v + t.loss.v) \div 2)
            /\ (isnan(t.loss) \/ isnan(t.max_prob)) =>
                f_pc = "invalid_score_error"

\* the classes of true_classes, and those with at least one finite score
SeenClasses == {p[1] : p \in seen_classes}
ValidClasses == {p[1] : p \in {q \in seen_classes : q[2]}}

\* C16: in the robust fitter a class with an evt_models entry has the
\* threshold the quantile of that model gave, so a class whose threshold is a
\* percentile fallback has no entry.
C16_ModelMeansGevThreshold ==
    variant = "robust" =>
        \A c \in DOMAIN evt_models :
            c \in DOMAIN thresholds =>
                /\ fit_out[c].ppf # <<>>
                /\ ~fit_out[c].ppf[1].raises
                /\ thresholds[c] = fit_out[c].ppf[1].value

\* C17: when fit_evt_models_robust returns, every class that had a finite
\* score has a threshold and every class with a model has a threshold; when
\* fit_evt_models returns, the keys of both tables are the classes of
\* true_classes.
C17_TablesConsistent ==
    f_pc = "returned" =>
        /\ variant = "robust" =>
            /\ ValidClasses \subseteq DOMAIN thresholds
            /\ DOMAIN evt_models \subseteq DOMAIN thresholds
        /\ variant = "standard" =>
            /\ DOMAIN thresholds = SeenClasses
            /\ DOMAIN evt_models = SeenClasses

\* a returned robust run in which one class has a threshold and no model
\* while the other class, seen with invalid scores only, has neither
C17_Witness ==
    /\ variant = "robust"
    /\ f_pc = "returned"
    /\ \E c \in ValidClasses :
        c \in DOMAIN thresholds /\ c \notin DOMAIN evt_models
    /\ \E c \in SeenClasses \ ValidClasses :
        c \notin DOMAIN thresholds /\ c \notin DOMAIN evt_models

\* C18: in the robust fitter the IQR trimming of a class of 10 or more scores
\* leaves at least 5 of them, so the fit is attempted for every such class.
C18_TrimmingLeavesFive ==
    variant = "robust" =>
        \A c \in Keys :
            Len(class_to_samples[c]) >= MinSamples =>
                /\ Len(scores_clean(class_to_samples[c])) >= MinCleanSamples
                /\ c \in DOMAIN thresholds => c \in DOMAIN fit_out

\* a returned robust run in which the trimming removed scores of a class of
\* 10 or more and the fit on the remaining ones was accepted
C18_Witness ==
    /\ variant = "robust"
    /\ f_pc = "returned"
    /\ \E c \in DOMAIN evt_models :
        /\ Len(class_to_samples[c]) >= MinSamples
        /\ Len(scores_clean(class_to_samples[c])) < Len(class_to_samples[c])
        /\ Len(scores_clean(class_to_samples[c])) >= MinCleanSamples

----------------------------------------------------------------------------
(* run: loss collection and normalization *)

\* longest split enumerated
MaxSplit == 1

Splits == {"train", "dev", "test", "ood"}

\* what extraction yields for a batch of a split
RunBatches ==
    { [raises |-> FALSE, value |-> Fin(0)],
      [raises |-> FALSE, value |-> Fin(One)],
      [raises |-> FALSE, value |-> NaN] }

\* statistics a previous run may have left under the same path
StaleStats == [min |-> Fin(0), max |-> Fin(One)]

\* compute_loss_stable of model.train, used by main.py: the loss collector
compute_loss_stable(d) == compute_loss_safe(d)

\* the reference statistics of a loss array
stats_of(ls) == [min |-> SeqMin(ls), max |-> SeqMax(ls)]

\* the affine map (x - min) / (max - min) on one loss, with IEEE division
normalize_value(x, st) ==
    LET range == st.max.v - st.min.v
        num == x.v - st.min.v
    IN  IF range = 0
        THEN IF num = 0 THEN NaN ELSE IF num > 0 THEN PInf ELSE NInf
        ELSE Fin((num * One) \div range)

\* normalize(losses, path, mode): in train mode the statistics are computed
\* from losses and persisted, in eval mode they are loaded; without persisted
\* statistics an eval call fails
normalize(ls, mode, st) ==
    IF mode = "train"
    THEN [error |-> FALSE, stats |-> <<stats_of(ls)>>, writes |-> 1,
          out |-> [i \in 1..Len(ls) |-> normalize_value(ls[i], stats_of(ls))]]
    ELSE IF st = <<>>
         THEN [error |-> TRUE, stats |-> st, writes |-> 0, out |-> <<>>]
         ELSE [error |-> FALSE, stats |-> st, writes |-> 0,
               out |-> [i \in 1..Len(ls) |-> normalize_value(ls[i], st[1])]]

\* the calls with every split normalized in train mode
run_calls_AllTrainMode(prog) ==
    IF prog = "predict"
    THEN << [op |-> "loss", split |-> "train", mode |-> "-"],
            [op |-> "loss", split |-> "dev", mode |-> "-"],
            [op |-> "loss", split |-> "test", mode |-> "-"],
            [op |-> "loss", split |-> "ood", mode |-> "-"],
            [op |-> "normalize", split |-> "train", mode |-> "train"],
            [op |-> "normalize", split |-> "dev", mode |-> "train"],
            [op |-> "normalize", split |-> "test", mode |-> "train"],
            [op |-> "normalize", split |-> "ood", mode |-> "train"] >>
    ELSE << [op |-> "loss", split |-> "train", mode |-> "-"],
            [op |-> "loss", split |-> "dev", mode |-> "-"],
            [op |-> "normalize", split |-> "train", mode |-> "train"],
            [op |-> "normalize", split |-> "dev", mode |-> "train"] >>

\* the loss and normalize calls of run, in program order
run_calls(prog) ==
    IF prog = "predict"
    THEN << [op |-> "loss", split |-> "train", mode |-> "-"],
            [op |-> "loss", split |-> "dev", mode |-> "-"],
            [op |-> "loss", split |-> "test", mode |-> "-"],
            [op |-> "loss", split |-> "ood", mode |-> "-"],
            [op |-> "normalize", split |-> "train", mode |-> "train"],
            [op |-> "normalize", split |-> "dev", mode |-> "eval"],
            [op |-> "normalize", split |-> "test", mode |-> "eval"],
            [op |-> "normalize", split |-> "ood", mode |-> "eval"] >>
    ELSE << [op |-> "loss", split |-> "train", mode |-> "-"],
            [op |-> "loss", split |-> "dev", mode |-> "-"],
            [op |-> "normalize", split |-> "train", mode |-> "train"],
            [op |-> "normalize", split |-> "dev", mode |-> "eval"] >>

RunIdle ==
    /\ program = "none"
    /\ r_data = [sp \in Splits |-> <<>>]
    /\ r_done = 0
    /\ r_loss = [sp \in Splits |-> <<>>]
    /\ r_norm = [sp \in Splits |-> <<>>]
    /\ stats = <<>>
    /\ stats_writes = 0
    /\ norm_calls = <<>>
    /\ r_pc = "idle"

RunInit ==
    /\ program \in {"predict", "main"}
    /\ r_data \in [Splits -> SeqsUpTo(RunBatches, MaxSplit)]
    /\ program = "main" => r_data["test"] = <<>> /\ r_data["ood"] = <<>>
    /\ r_done = 0
    /\ r_loss = [sp \in Splits |-> <<>>]
    /\ r_norm = [sp \in Splits |-> <<>>]
    /\ stats \in {<<>>, <<StaleStats>>}
    /\ stats_writes = 0
    /\ norm_calls = <<>>
    /\ r_pc = "run"

NextCall == run_calls(program)[r_done + 1]

\* x_loss = compute_loss_safe(model, x_tf)   (compute_loss_stable in main.py)
RunLoss ==
    /\ r_pc = "run"
    /\ r_done < Len(run_calls(program))
    /\ NextCall.op = "loss"
    /\ r_loss' = [r_loss EXCEPT ![NextCall.split] =
                    IF program = "predict"
                    THEN compute_loss_safe(r_data[NextCall.split])
                    ELSE compute_loss_stable(r_data[NextCall.split])]
    /\ r_done' = r_done + 1
    /\ UNCHANGED <<program, r_data, r_norm, stats, stats_writes, norm_calls,
                   r_pc, collectVars, predictVars, fitVars, decideVars>>

\* normalized_x_loss = normalize(x_loss, path=..., mode=...)
RunNormalize ==
    /\ r_pc = "run"
    /\ r_done < Len(run_calls(program))
    /\ NextCall.op = "normalize"
    /\ LET r == normalize(r_loss[NextCall.split], NextCall.mode, stats)
       IN  /\ stats' = r.stats
           /\ stats_writes' = stats_writes + r.writes
           /\ r_norm' = [r_norm EXCEPT ![NextCall.split] = r.out]
           /\ norm_calls' = Append(norm_calls,
                                   [split |-> NextCall.split,
                                    mode |-> NextCall.mode,
                                    used |-> r.stats])
           /\ r_pc' = IF r.error THEN "config_error" ELSE "run"
    /\ r_done' = r_done + 1
    /\ UNCHANGED <<program, r_data, r_loss, collectVars, predictVars, fitVars,
                   decideVars>>

\* the last of the calls has returned
RunDone ==
    /\ r_pc = "run"
    /\ r_done = Len(run_calls(program))
    /\ r_pc' = "done"
    /\ UNCHANGED <<program, r_data, r_done, r_loss, r_norm, stats, stats_writes,
                   norm_calls, collectVars, predictVars, fitVars, decideVars>>

RunNext == RunLoss \/ RunNormalize \/ RunDone

----------------------------------------------------------------------------
(* Claims about run *)

\* C10: the normalization statistics are written exactly once per run, by a
\* train-mode call on the train split that comes before every eval-mode call;
\* dev, test and ood are normalized in eval mode only, against the statistics
\* of the train split, and no eval call fails for want of them.
C10_StatsWrittenOnceFromTrain ==
    /\ r_pc # "config_error"
    /\ stats_writes <= 1
    /\ r_pc = "done" => stats_writes = 1
    /\ \A i \in DOMAIN norm_calls :
        /\ norm_calls[i].mode = "train" <=> norm_calls[i].split = "train"
        /\ norm_calls[i].mode = "eval" =>
            /\ \E j \in 1..(i - 1) : norm_calls[j].mode = "train"
            /\ norm_calls[i].used = <<stats_of(r_loss["train"])>>

\* a finished run of predict.py that found stale statistics, wrote its own
\* once and normalized dev, test and ood against them
C10_Witness ==
    /\ program = "predict"
    /\ r_pc = "done"
    /\ Len(norm_calls) = 4
    /\ stats_writes = 1
    /\ stats # <<StaleStats>>
    /\ norm_calls[4].split = "ood"
    /\ norm_calls[4].used = stats

----------------------------------------------------------------------------
(* run of predict.py: detection approach, prediction and binary view *)

\* longest train split enumerated
MaxTrain == 2

\* longest test / ood split enumerated
MaxEval == 2

\* what extraction yields for a batch of the train split
TrainBatches ==
    { [raises |-> FALSE, value |-> Fin(0)],
      [raises |-> FALSE, value |-> Fin(100 * One)] }

\* the dev split: it only reaches evt_vae_only
DevSets == {<<[raises |-> FALSE, value |-> Fin(0)]>>}

\* what extraction yields for a batch of the test or the ood split
EvalBatches ==
    { [raises |-> FALSE, value |-> Fin(0)],
      [raises |-> FALSE, value |-> Fin(100 * One)],
      [raises |-> FALSE, value |-> NaN] }

\* config.get("evt_fpr", 0.05)
DefaultEvtFpr == Fin(One \div 20)

\* config.get("tail_fraction", 0.2)
DefaultTailFraction == Fin(One \div 5)

\* config.get("min_tail_size", 30)
DefaultMinTailSize == 30

\* config.get("fixed_threshold", 0.2)
DefaultFixedThreshold == Fin(One \div 5)

\* no option configured
NoConfig ==
    [use_evt_vae |-> <<>>, evt_fpr |-> <<>>, tail_fraction |-> <<>>,
     min_tail_size |-> <<>>, fixed_threshold |-> <<>>]

\* the configurations enumerated
Configs ==
    { NoConfig,
      [NoConfig EXCEPT !.use_evt_vae = <<TRUE>>],
      [NoConfig EXCEPT !.use_evt_vae = <<FALSE>>],
      [NoConfig EXCEPT !.use_evt_vae = <<TRUE>>,
                       !.evt_fpr = <<Fin(One \div 10)>>,
                       !.tail_fraction = <<Fin(One \div 4)>>,
                       !.min_tail_size = <<10>>],
      [NoConfig EXCEPT !.fixed_threshold = <<Fin(One \div 2)>>] }

\* config.get(key, default)
config_get(cfg, key, default) ==
    IF cfg[key] = <<>> THEN default ELSE cfg[key][1]

\* evt_results["evt"]["threshold"] as evt_vae_only may return it
EvtThresholds == {Fin(One \div 2), NaN}

\* the four compute_loss_safe calls of run
run_losses(d) == [sp \in Splits |-> compute_loss_safe(d[sp])]

\* the four normalize calls of run: train mode on the train losses, then eval
\* mode on the dev, test and ood losses
run_normalized(loss) ==
    LET tr == normalize(loss["train"], "train", <<>>)
    IN  [sp \in Splits |->
            IF sp = "train" THEN tr ELSE normalize(loss[sp], "eval", tr.stats)]

\* test_sentences / ood_sentences: one sentence per batch of the split
sentences_of(d, sp) == [i \in 1..Len(d[sp]) |-> <<sp, i>>]

\* the binary view with > in place of <=: 1 only for a loss above the threshold
binary_view_Greater(ls, thr) ==
    [i \in 1..Len(ls) |-> IF FGt(ls[i], thr) THEN 1 ELSE 0]

\* [0 if loss <= threshold else 1 for loss in eval_losses]
binary_view(ls, thr) ==
    [i \in 1..Len(ls) |-> IF FLe(ls[i], thr) THEN 0 ELSE 1]

\* [0] * len(test_sentences) + [1] * len(ood_sentences)
true_binary(d) ==
    [i \in 1..Len(d["test"]) |-> 0] \o [i \in 1..Len(d["ood"]) |-> 1]

DecideIdle ==
    /\ config = NoConfig
    /\ d_data = [sp \in Splits |-> <<>>]
    /\ d_loss = [sp \in Splits |-> <<>>]
    /\ d_norm = [sp \in Splits |-> <<>>]
    /\ path = "none"
    /\ evt_args = <<>>
    /\ run_threshold = <<>>
    /\ eval_losses = <<>>
    /\ eval_sentences = <<>>
    /\ y_pred_multiclass = <<>>
    /\ y_pred_binary = <<>>
    /\ y_true_binary = <<>>
    /\ d_pc = "idle"

DecideInit ==
    /\ config \in Configs
    /\ \E tr \in SeqsUpTo(TrainBatches, MaxTrain), dv \in DevSets,
          te \in SeqsUpTo(EvalBatches, MaxEval),
          oo \in SeqsUpTo(EvalBatches, MaxEval) :
        d_data = [sp \in Splits |->
                    CASE sp = "train" -> tr
                      [] sp = "dev" -> dv
                      [] sp = "test" -> te
                      [] OTHER -> oo]
    /\ d_loss = [sp \in Splits |-> <<>>]
    /\ d_norm = [sp \in Splits |-> <<>>]
    /\ path = "none"
    /\ evt_args = <<>>
    /\ run_threshold = <<>>
    /\ eval_losses = <<>>
    /\ eval_sentences = <<>>
    /\ y_pred_multiclass = <<>>
    /\ y_pred_binary = <<>>
    /\ y_true_binary = <<>>
    /\ d_pc = "start"

\* train_loss = compute_loss_safe(model, train_tf) ... normalized_ood_loss =
\* normalize(ood_loss, ..., mode="eval")
DecideLosses ==
    /\ d_pc = "start"
    /\ LET loss == run_losses(d_data)
           norm == run_normalized(loss)
       IN  /\ d_loss' = loss
           /\ d_norm' = [sp \in Splits |-> norm[sp].out]
           /\ d_pc' = IF \E sp \in Splits : norm[sp].error
                      THEN "config_error" ELSE "normalized"
    /\ UNCHANGED <<config, d_data, path, evt_args, run_threshold, eval_losses,
                   eval_sentences, y_pred_multiclass, y_pred_binary,
                   y_true_binary, collectVars, predictVars, fitVars, runVars>>

\* if config.get("use_evt_vae", False): evt_results = evt_vae_only(...)
DecideEvt ==
    /\ d_pc = "normalized"
    /\ config_get(config, "use_evt_vae", FALSE)
    /\ path' = "evt"
    /\ evt_args' =
        <<[desired_fpr |-> config_get(config, "evt_fpr", DefaultEvtFpr),
           tail_fraction |->
               config_get(config, "tail_fraction", DefaultTailFraction),
           min_tail_size |->
               config_get(config, "min_tail_size", DefaultMinTailSize)]>>
    /\ \E evt_threshold \in EvtThresholds : run_threshold' = <<evt_threshold>>
    /\ d_pc' = "chosen"
    /\ UNCHANGED <<config, d_data, d_loss, d_norm, eval_losses, eval_sentences,
                   y_pred_multiclass, y_pred_binary, y_true_binary,
                   collectVars, predictVars, fitVars, runVars>>

\* else: fixed_threshold = config.get("fixed_threshold", 0.2)
DecideFixed ==
    /\ d_pc = "normalized"
    /\ ~config_get(config, "use_evt_vae", FALSE)
    /\ path' = "fixed"
    /\ run_threshold' =
        <<config_get(config, "fixed_threshold", DefaultFixedThreshold)>>
    /\ d_pc' = "chosen"
    /\ UNCHANGED <<config, d_data, d_loss, d_norm, evt_args, eval_losses,
                   eval_sentences, y_pred_multiclass, y_pred_binary,
                   y_true_binary, collectVars, predictVars, fitVars, runVars>>

\* eval_losses = np.concatenate(...); y_pred_multiclass = predict(...);
\* y_true_binary = ...; y_pred_binary = ...; the metrics refuse lists of
\* unequal length
DecidePredict ==
    /\ d_pc = "chosen"
    /\ LET ls == d_norm["test"] \o d_norm["ood"]
           sens == sentences_of(d_data, "test") \o sentences_of(d_data, "ood")
           thr == run_threshold[1]
       IN  /\ eval_losses' = ls
           /\ eval_sentences' = sens
           /\ \E c \in Classes :
                y_pred_multiclass' =
                    predict(ls, sens, thr, NumClasses,
                            [s \in {sens[i] : i \in 1..Len(sens)} |-> c])
           /\ y_true_binary' = true_binary(d_data)
           /\ y_pred_binary' = binary_view(ls, thr)
           /\ d_pc' = IF Len(ls) = Len(sens) THEN "done" ELSE "metrics_raised"
    /\ UNCHANGED <<config, d_data, d_loss, d_norm, path, evt_args,
                   run_threshold, collectVars, predictVars, fitVars, runVars>>

DecideNext == DecideLosses \/ DecideEvt \/ DecideFixed \/ DecidePredict

----------------------------------------------------------------------------
(* Claims about the run of predict.py *)

Evaluated == d_pc \in {"done", "metrics_raised"}

\* a split with at least one sentence, every one of them with a NaN loss
AllNaN(sp) ==
    /\ d_data[sp] # <<>>
    /\ \A i \in 1..Len(d_data[sp]) :
        ~d_data[sp][i].raises /\ isnan(d_data[sp][i].value)

\* the position of the i-th sentence of a split among the evaluation sentences
EvalIndex(sp, i) == IF sp = "test" THEN i ELSE Len(d_data["test"]) + i

\* C11: when every loss of the test or of the ood split is NaN, the collector
\* returns [10.0] for it, normalization does not fail, and every sentence of
\* the split gets ood_label from predict and 1 in the binary view.
C11_AllNanSplitIsOod ==
    \A sp \in {"test", "ood"} :
        (AllNaN(sp) /\ d_pc # "start") =>
            /\ d_loss[sp] = <<Fin(SentinelLoss * One)>>
            /\ d_pc # "config_error"
            /\ Evaluated =>
                \A i \in 1..Len(d_data[sp]) :
                    LET j == EvalIndex(sp, i)
                    IN  /\ j <= Len(y_pred_multiclass)
                        /\ y_pred_multiclass[j] = NumClasses
                        /\ j <= Len(y_pred_binary)
                        /\ y_pred_binary[j] = 1

\* C12: without use_evt_vae in the configuration the threshold comes from
\* evt_vae_only, called with evt_fpr, tail_fraction and min_tail_size
\* defaulting to 0.05, 0.2 and 30; the fixed threshold (default 0.2) is used
\* only when use_evt_vae is configured to select it; exactly one of the two
\* branches sets the threshold given to predict.
C12_EvtPathIsDefault ==
    d_pc \in {"chosen", "done", "metrics_raised"} =>
        /\ path \in {"evt", "fixed"}
        /\ Len(run_threshold) = 1
        /\ config.use_evt_vae = <<>> => path = "evt"
        /\ path = "fixed" <=> config.use_evt_vae = <<FALSE>>
        /\ path = "evt" =>
            /\ Len(evt_args) = 1
            /\ config.evt_fpr = <<>> =>
                evt_args[1].desired_fpr = Fin(One \div 20)
            /\ config.tail_fraction = <<>> =>
                evt_args[1].tail_fraction = Fin(One \div 5)
            /\ config.min_tail_size = <<>> => evt_args[1].min_tail_size = 30
        /\ path = "fixed" =>
            /\ evt_args = <<>>
            /\ config.fixed_threshold = <<>> =>
                run_threshold = <<Fin(One \div 5)>>
            /\ config.fixed_threshold # <<>> =>
                run_threshold = config.fixed_threshold

\* every test loss is <= the threshold and every ood loss is > the threshold
ScenarioB ==
    /\ \A i \in 1..Len(d_norm["test"]) :
        FLe(d_norm["test"][i], run_threshold[1])
    /\ \A i \in 1..Len(d_norm["ood"]) :
        FGt(d_norm["ood"][i], run_threshold[1])

C15_LossesAlignedWithSentences ==
    Evaluated =>
        /\ Len(eval_sentences) = Len(d_data["test"]) + Len(d_data["ood"])
        /\ Len(eval_losses) = Len(eval_sentences)
        /\ \A j \in 1..Len(eval_sentences) :
            LET b == d_data[eval_sentences[j][1]][eval_sentences[j][2]]
            IN  ValidBatch(b) =>
                    /\ j <= Len(eval_losses)
                    /\ eval_losses[j] =
                        normalize_value(b.value, stats_of(d_loss["train"]))
        /\ Len(y_pred_multiclass) = Len(eval_sentences)
        /\ Len(y_pred_multiclass) = Len(y_true_binary)
        /\ Len(y_pred_binary) = Len(y_true_binary)
        /\ d_pc # "metrics_raised"

----------------------------------------------------------------------------
(* Specifications *)

InitCollect == CollectInit /\ PredictIdle /\ FitIdle /\ RunIdle /\ DecideIdle

InitPredict == PredictInit /\ CollectIdle /\ FitIdle /\ RunIdle /\ DecideIdle

InitFit == FitInit /\ CollectIdle /\ PredictIdle /\ RunIdle /\ DecideIdle

InitRun == RunInit /\ CollectIdle /\ PredictIdle /\ FitIdle /\ DecideIdle

InitDecide ==
    DecideInit /\ CollectIdle /\ PredictIdle /\ FitIdle /\ RunIdle

SpecCollect == InitCollect /\ [][CollectNext]_vars

SpecPredict == InitPredict /\ [][PredictNext]_vars

SpecFit == InitFit /\ [][FitNext]_vars

SpecRun == InitRun /\ [][RunNext]_vars

SpecDecide == InitDecide /\ [][DecideNext]_vars

=============================================================================
